---- MODULE Spec2Model ----
(***************************************************************************)
(* Model of bus-watchface.c: a Pebble watchface that shows the time until  *)
(* the arrival of the next bus, from a timetable compiled into the source. *)
(***************************************************************************)
EXTENDS Integers, Sequences, FiniteSets, TLC

VARIABLES
    pc,        \* lifecycle position: "start", "running", "done", or "diff"/"measured"
    schedule,  \* static day_time schedule[]
    now,       \* update_content: day_time now
    arrival,   \* update_content: day_time a, as returned by next_arrival
    mins,      \* update_content: int mins
    counter,   \* text of the counter layer
    details    \* arguments formatted into the details layer

vars == <<pc, schedule, now, arrival, mins, counter, details>>

\* ---------------------------------------------------------------- constants
HoursPerDay == 24
MinutesPerHour == 60
CounterLimit == 60

\* ------------------------------------------------------------------- bounds
MaxExtHour == 47   \* largest hour of an extended clock-point
MaxEntries == 2    \* longest alternative timetable
MaxSkip == 2       \* most minutes that pass between two delivered ticks

\* -------------------------------------------------------------- data types
day_time(h, m) == [hour |-> h, minute |-> m]

bus_number == "700"

\* The compiled-in timetable (C index i is TLA+ index i + 1).
CompiledSchedule ==
    << day_time(5, 47), day_time(6, 6), day_time(6, 25),
       day_time(6, 45), day_time(7, 6), day_time(7, 21),
       day_time(7, 37), day_time(7, 53), day_time(8, 9),
       day_time(8, 25), day_time(8, 40), day_time(9, 7),
       day_time(9, 29), day_time(9, 51), day_time(10, 14),
       day_time(10, 36), day_time(10, 58), day_time(11, 19),
       day_time(11, 40), day_time(12, 2), day_time(12, 23),
       day_time(12, 44), day_time(13, 6), day_time(13, 27),
       day_time(13, 48), day_time(14, 10), day_time(14, 26),
       day_time(14, 42), day_time(14, 58), day_time(15, 14),
       day_time(15, 30), day_time(15, 46), day_time(16, 7),
       day_time(16, 28), day_time(16, 50), day_time(17, 6),
       day_time(17, 22), day_time(17, 38), day_time(17, 54),
       day_time(18, 10), day_time(18, 26), day_time(18, 42),
       day_time(18, 58), day_time(19, 14), day_time(19, 30),
       day_time(19, 54), day_time(20, 18), day_time(20, 42),
       day_time(21, 5), day_time(21, 24), day_time(21, 43),
       day_time(22, 3), day_time(22, 22), day_time(22, 41),
       day_time(23, 1), day_time(23, 20), day_time(23, 39),
       day_time(23, 59), day_time(0, 18), day_time(0, 37) >>

schedule_size == Len(schedule)

\* Wall-clock readings: localtime() gives tm_hour in 0..23, tm_min in 0..59.
ClockTimes ==
    {day_time(h, m) : h \in 0..(HoursPerDay - 1), m \in 0..(MinutesPerHour - 1)}

\* The wall clock k minutes after reading t.
plus_minutes(t, k) ==
    LET total == (t.hour * MinutesPerHour + t.minute + k)
                     % (HoursPerDay * MinutesPerHour)
    IN  day_time(total \div MinutesPerHour, total % MinutesPerHour)

\* Clock-points with the extended hour range.
ExtTimes ==
    {day_time(h, m) : h \in 0..MaxExtHour, m \in 0..(MinutesPerHour - 1)}

\* ------------------------------------------------------------------ compare
compare(a, b) ==
    IF a.hour < b.hour THEN -1
    ELSE IF a.hour = b.hour THEN a.minute - b.minute
    ELSE 1

\* ------------------------------------------------------------- next_arrival
\* The for loop: index of the first entry strictly after t, 0 when the loop
\* runs off the end.
RECURSIVE scan(_, _)
scan(i, t) ==
    IF i > schedule_size THEN 0
    ELSE IF compare(schedule[i], t) > 0 THEN i
    ELSE scan(i + 1, t)

RECURSIVE scan_ge(_, _)
scan_ge(i, t) ==
    IF i > schedule_size THEN 0
    ELSE IF compare(schedule[i], t) >= 0 THEN i
    ELSE scan_ge(i + 1, t)

RECURSIVE scan_truthy(_, _)
scan_truthy(i, t) ==
    IF i > schedule_size THEN 0
    ELSE IF compare(schedule[i], t) # 0 THEN i
    ELSE scan_truthy(i + 1, t)

\* What a read of schedule[0] yields.  With an empty array the read is out of
\* bounds, so any value may come back.
Garbage == {day_time(h, m) : h \in {-30, 0, 7}, m \in {-1, 0, 75}}

schedule_0 == IF schedule_size > 0 THEN {schedule[1]} ELSE Garbage

\* Mutant: the search accepts an entry equal to t.
next_arrival_ge(t, s0) ==
    LET i == scan_ge(1, t)
    IN  IF i > 0 THEN schedule[i] ELSE day_time(s0.hour + HoursPerDay, s0.minute)

\* Mutant: the test "> 0" is dropped, so any non-zero compare matches.
next_arrival_truthy(t, s0) ==
    LET i == scan_truthy(1, t)
    IN  IF i > 0 THEN schedule[i] ELSE day_time(s0.hour + HoursPerDay, s0.minute)

\* Mutant: the loop starts at index 1 and skips the first entry.
next_arrival_skipfirst(t, s0) ==
    LET i == scan(2, t)
    IN  IF i > 0 THEN schedule[i] ELSE day_time(s0.hour + HoursPerDay, s0.minute)

\* s0 is the value read from schedule[0] on the fall-through path.
next_arrival(t, s0) ==
    LET i == scan(1, t)
    IN  IF i > 0 THEN schedule[i] ELSE day_time(s0.hour + HoursPerDay, s0.minute)

\* ------------------------------------------------------- minutes_difference
\* Mutant: the borrow is taken from the hours but 60 is not added back.
minutes_difference_noadd(next, t) ==
    LET m0 == next.minute - t.minute
        carry == IF m0 < 0 THEN 1 ELSE 0
    IN  m0 + (next.hour - t.hour - carry) * MinutesPerHour

\* Mutant: 60 is added to the minutes but no hour is borrowed.
minutes_difference_nocarry(next, t) ==
    LET m0 == next.minute - t.minute
        m1 == IF m0 < 0 THEN m0 + MinutesPerHour ELSE m0
    IN  m1 + (next.hour - t.hour) * MinutesPerHour

minutes_difference(next, t) ==
    LET m0 == next.minute - t.minute
        m1 == IF m0 < 0 THEN m0 + MinutesPerHour ELSE m0
        carry == IF m0 < 0 THEN 1 ELSE 0
    IN  m1 + (next.hour - t.hour - carry) * MinutesPerHour

\* ----------------------------------------------------------- update_content
\* snprintf(buf, ..., "%dm", mins) or the fixed text "60+m".
counter_text(m) ==
    IF m > CounterLimit THEN "60+m" ELSE ToString(m) \o "m"

\* "if (a.hour > 24) a.hour -= 24;" followed by the details snprintf.
details_args(a) ==
    [bus    |-> bus_number,
     hour   |-> IF a.hour > HoursPerDay THEN a.hour - HoursPerDay ELSE a.hour,
     minute |-> a.minute]

\* t is the clock reading of time()/localtime().
update_content(t) ==
    \E s0 \in schedule_0 :
        LET a == next_arrival(t, s0)
            m == minutes_difference(a, t)
        IN  /\ now' = t
            /\ arrival' = a
            /\ mins' = m
            /\ counter' = counter_text(m)
            /\ details' = details_args(a)

\* ---------------------------------------------------------------- lifecycle
Blank == day_time(0, 0)

InitCommon ==
    /\ now = Blank
    /\ arrival = Blank
    /\ mins = 0
    /\ counter = ""
    /\ details = [bus |-> "", hour |-> 0, minute |-> 0]

Init ==
    /\ pc = "start"
    /\ schedule = CompiledSchedule
    /\ InitCommon

\* init(): pushing the window runs window_load, which ends in update_content;
\* then the tick handler is subscribed.
init ==
    /\ pc = "start"
    /\ \E t \in ClockTimes : update_content(t)
    /\ pc' = "running"
    /\ UNCHANGED schedule

\* The minute tick; the clock has moved on by at least one minute since the
\* previous reading.
handle_tick ==
    /\ pc = "running"
    /\ \E k \in 1..MaxSkip : update_content(plus_minutes(now, k))
    /\ UNCHANGED <<pc, schedule>>

\* The event loop returns and deinit() destroys the window.
deinit ==
    /\ pc = "running"
    /\ pc' = "done"
    /\ UNCHANGED <<schedule, now, arrival, mins, counter, details>>

Next == init \/ handle_tick \/ deinit

Spec == Init /\ [][Next]_vars

\* ------------------------------------------- builds with another timetable
\* "The parameters": the timetable is edited in the source and rebuilt.
EntryPool == {day_time(0, 18), day_time(12, 0), day_time(23, 59)}

Ascending(s) ==
    \A i \in 1..(Len(s) - 1) : compare(s[i], s[i + 1]) < 0

Timetables ==
    {s \in UNION {[1..n -> EntryPool] : n \in 0..MaxEntries} : Ascending(s)}

InitCfg ==
    /\ pc = "start"
    /\ schedule \in Timetables
    /\ InitCommon

SpecCfg == InitCfg /\ [][Next]_vars

\* --------------------------------------- minutes_difference on its own
InitDiff ==
    /\ pc = "diff"
    /\ schedule = CompiledSchedule
    /\ now \in ExtTimes
    /\ arrival = Blank
    /\ mins = 0
    /\ counter = ""
    /\ details = [bus |-> "", hour |-> 0, minute |-> 0]

Probes == {day_time(h, m) : h \in {0, HoursPerDay, MaxExtHour}, m \in {0, MinutesPerHour - 1}}

measure ==
    /\ pc = "diff"
    /\ \E next \in Probes :
          /\ arrival' = next
          /\ mins' = minutes_difference(next, now)
    /\ pc' = "measured"
    /\ UNCHANGED <<schedule, now, counter, details>>

NextDiff == measure

SpecDiff == InitDiff /\ [][NextDiff]_vars

\* =================================================================== claims
Updated == pc \in {"running", "done"}

\* Some entry is strictly after t, so the scan returns it (no wraparound).
FoundByScan(t) == \E i \in 1..schedule_size : compare(schedule[i], t) > 0

total_minutes(t) == t.hour * MinutesPerHour + t.minute

\* C1: after every update the arrival returned by next_arrival compares
\* strictly greater than now, on the scan path and on the +24 wraparound
\* path; an entry equal to now is never the one returned.
C1_ArrivalAfterNow ==
    Updated => /\ compare(arrival, now) > 0
               /\ arrival # now
               /\ (~FoundByScan(now) => arrival.hour >= HoursPerDay)

C1_Witness ==
    /\ pc = "running"
    /\ now = day_time(23, 59)
    /\ \E i \in 1..schedule_size : schedule[i] = now
    /\ arrival.hour >= HoursPerDay

\* C2: after every update the minute count is in [0, 1440).
C2_MinutesInDay ==
    Updated => /\ mins \in Int
               /\ mins >= 0
               /\ mins < HoursPerDay * MinutesPerHour

C2_Witness ==
    /\ pc = "running"
    /\ ~FoundByScan(now)
    /\ mins = minutes_difference(arrival, now)
    /\ mins > 5 * MinutesPerHour

\* C3: at now = 23:59 the arrival is (24,18) and the minute count is 19.
C3_LastMinuteOfDay ==
    (Updated /\ now = day_time(23, 59))
        => (arrival = day_time(24, 18) /\ mins = 19)

\* C4 as stated: at now = 0:37 the lookup wraps to (29,47), 1750 minutes
\* away, and the counter shows the over-an-hour text.
C4_Original ==
    (Updated /\ now = day_time(0, 37))
        => /\ ~FoundByScan(now)
           /\ arrival = day_time(29, 47)
           /\ mins = 1750
           /\ counter = "60+m"

\* C4 amended: at now = 0:37 the scan returns the first entry (5,47) without
\* wraparound, 310 minutes away, and the counter shows the over-an-hour text.
C4_Amended ==
    (Updated /\ now = day_time(0, 37))
        => /\ FoundByScan(now)
           /\ arrival = day_time(5, 47)
           /\ mins = 310
           /\ counter = "60+m"

C4_Witness ==
    /\ pc = "running"
    /\ now = day_time(0, 37)
    /\ schedule[schedule_size] = now
    /\ counter = "60+m"

\* C5: the schedule is non-empty, its entries are within 0..23 : 0..59, and
\* adjacent entries are in strictly ascending order, in every state.
C5_ScheduleSorted ==
    /\ schedule_size >= 1
    /\ \A i \in 1..schedule_size :
          /\ schedule[i].hour \in 0..(HoursPerDay - 1)
          /\ schedule[i].minute \in 0..(MinutesPerHour - 1)
    /\ \A i \in 1..(schedule_size - 1) : compare(schedule[i], schedule[i + 1]) < 0

\* C6: for any non-empty timetable the hour written to the details text is
\* in 0..23: 24 less than the arrival's hour after a wraparound, the
\* arrival's hour otherwise.
C6_DetailsHourNormalized ==
    (Updated /\ schedule_size > 0)
        => /\ details.hour \in 0..(HoursPerDay - 1)
           /\ details.hour = IF FoundByScan(now) THEN arrival.hour
                                                 ELSE arrival.hour - HoursPerDay

\* C7: for clock readings now < t2 that both find their arrival by the scan,
\* the arrival for now compares <= the arrival for t2.
C7_Monotone ==
    (pc = "running" /\ FoundByScan(now))
        => \A h \in 0..(HoursPerDay - 1), m \in 0..(MinutesPerHour - 1) :
              LET t2 == day_time(h, m)
              IN  (compare(now, t2) < 0 /\ FoundByScan(t2))
                      => \A s0 \in schedule_0 :
                            compare(arrival, next_arrival(t2, s0)) <= 0

C7_Witness ==
    /\ pc = "running"
    /\ now = day_time(5, 47)
    /\ arrival = day_time(6, 6)
    /\ \E t2 \in ClockTimes : compare(now, t2) < 0 /\ FoundByScan(t2)

\* C8: with an empty timetable start-up never completes with a lookup.
C8_EmptyTimetableFails ==
    schedule_size = 0 => ~Updated

\* C9: for all clock-points with hour in 0..47 the borrow-based difference
\* equals the difference of the total minutes, and is strictly positive
\* exactly when compare says next follows now.
C9_DiffIsTotalMinutes ==
    /\ pc = "diff" =>
          \A h \in 0..MaxExtHour, m \in 0..(MinutesPerHour - 1) :
             LET next == day_time(h, m)
                 d == minutes_difference(next, now)
             IN  /\ d = total_minutes(next) - total_minutes(now)
                 /\ (d > 0) <=> (compare(next, now) > 0)
    /\ pc = "measured" =>
          /\ mins = total_minutes(arrival) - total_minutes(now)
          /\ (mins > 0) <=> (compare(arrival, now) > 0)

C9_Witness ==
    /\ pc = "measured"
    /\ arrival.minute < now.minute
    /\ arrival.hour < now.hour
    /\ mins < 0

\* C10: over two updates one minute apart the minute count is at least 1 and
\* is either one less than before or the count before was 1.
C10_Countdown ==
    [][(pc = "running" /\ pc' = "running" /\ now' = plus_minutes(now, 1))
          => /\ mins >= 1
             /\ mins' >= 1
             /\ (mins' = mins - 1 \/ mins = 1)]_vars

C10_Witness ==
    /\ pc = "running"
    /\ now = day_time(0, 0)
    /\ arrival = day_time(5, 47)
    /\ mins = 347

====
